---- MODULE Spec2Model ----
(***************************************************************************)
(* Model of the activity-log listener (nestjs-listener-log).               *)
(*                                                                         *)
(* ActivityLogListener.handleLogEvent is an async method; the JavaScript   *)
(* event loop runs it to the next `await` without preemption, so every     *)
(* action below is one run-to-await segment of one invocation.  Several    *)
(* invocations (deliveries) may be in flight and interleave at the awaits. *)
(***************************************************************************)
EXTENDS Integers, Sequences, FiniteSets, TLC

(* ---------------------------- bounds ----------------------------------- *)
NumDeliveries == 2
MaxClock == 1

Deliveries == 1..NumDeliveries

(* ------------------------ input domains -------------------------------- *)
Undefined == "undefined"
\* Valid ActivityLogPayload values delivered by the event emitter.
Payloads ==
    {[userId |-> "user-123", url |-> "/api/endpoint",
      processType |-> "GET", responseTimeMs |-> 42],
     [userId |-> "user-456", url |-> "/api/other",
      processType |-> "POST", responseTimeMs |-> 7]}

\* Payloads with a required field missing (the handler does not validate).
MalformedPayloads ==
    {[userId |-> Undefined, url |-> "/api/endpoint",
      processType |-> "GET", responseTimeMs |-> 42]}

Malformed(p) == Undefined \in {p.userId, p.url, p.processType}

NoPayload == [userId |-> Undefined, url |-> Undefined,
              processType |-> Undefined, responseTimeMs |-> 0]

EnvValues == {Undefined, "", "http://es-host:9200"}
DefaultNode == "http://localhost:9200"

VARIABLES
    env,                  \* value of ELASTICSEARCH_NODE in the configuration
    elasticsearchService, \* the listener's injected field
    pc,                   \* per delivery: position of the invocation
    payload,              \* per delivery: the argument of handleLogEvent
    als,                  \* per delivery: the CLS store(s) active for its code
    clsStore,             \* CLS stores: store key -> value of 'userId'
    rows,                 \* relational table activity_logs
    docs,                 \* search index 'activity-logs'
    indexReq,             \* per delivery: the index request issued
    logs,                 \* per delivery: the lines it logged, in order
    now,                  \* wall clock
    relOutcome,           \* per delivery: outcome of the relational write
    esOutcome,            \* per delivery: outcome of the search write
    returned,             \* per delivery: how the invocation ended
    saveCalls,            \* per delivery: number of repository.save calls
    indexCalls            \* per delivery: number of elasticsearch index calls

vars == <<env, elasticsearchService, pc, payload, als, clsStore, rows, docs,
          indexReq, logs, now, relOutcome, esOutcome, returned, saveCalls,
          indexCalls>>

(* ------------------------- wiring -------------------------------------- *)
Truthy(s) == s # Undefined /\ s # ""

NoService == [defined |-> FALSE, node |-> Undefined]

\* A factory that provides no service when no node is configured.
SearchModuleFactory_Disables(e) ==
    IF Truthy(e) THEN [defined |-> TRUE, node |-> e] ELSE NoService

\* SearchModule: ElasticsearchModule.registerAsync factory; the service is
\* always provided, with the configured node or the fallback one.
SearchModuleFactory(e) ==
    [defined |-> TRUE, node |-> IF Truthy(e) THEN e ELSE DefaultNode]

\* Values the constructor parameter elasticsearchService can be given.
Services == {NoService, SearchModuleFactory(Undefined)}

(* ------------------------- logger -------------------------------------- *)
LogEntry(lvl, m, a, d) == [level |-> lvl, msg |-> m, args |-> a]

CaughtLog(p, d) == LogEntry("log", "Caught log event!", <<p.userId, p.url>>, d)

\* AfterRun without the catch of line 34: the rejection is logged and rethrown.
AfterRun_Rethrow(outcome, d) ==
    IF outcome = "Succeeded"
    THEN [log |-> <<LogEntry("log", "Saved to MariaDB", <<>>, d)>>,
          escapes |-> FALSE]
    ELSE [log |-> <<LogEntry("error", "Failed to save activity log to MariaDB",
                             <<>>, d)>>,
          escapes |-> TRUE]

\* AfterRun without the log of line 33.
AfterRun_Silent(outcome, d) ==
    IF outcome = "Succeeded"
    THEN [log |-> <<>>, escapes |-> FALSE]
    ELSE [log |-> <<LogEntry("error", "Failed to save activity log to MariaDB",
                             <<>>, d)>>,
          escapes |-> FALSE]

\* AfterRun with the success log moved after the try/catch: it is emitted
\* on both paths.
AfterRun_SavedAlways(outcome, d) ==
    IF outcome = "Succeeded"
    THEN [log |-> <<LogEntry("log", "Saved to MariaDB", <<>>, d)>>,
          escapes |-> FALSE]
    ELSE [log |-> <<LogEntry("error", "Failed to save activity log to MariaDB",
                             <<>>, d),
                    LogEntry("log", "Saved to MariaDB", <<>>, d)>>,
          escapes |-> FALSE]

\* Lines 33-36: what follows the awaited clsService.run.
AfterRun(outcome, d) ==
    IF outcome = "Succeeded"
    THEN [log |-> <<LogEntry("log", "Saved to MariaDB", <<>>, d)>>,
          escapes |-> FALSE]
    ELSE [log |-> <<LogEntry("error", "Failed to save activity log to MariaDB",
                             <<>>, d)>>,
          escapes |-> FALSE]

\* AfterIndex without the catch of line 51: the rejection escapes.
AfterIndex_NoCatch(outcome, d) ==
    IF outcome = "Succeeded"
    THEN [log |-> <<LogEntry("log", "Saved to Elasticsearch", <<>>, d)>>,
          escapes |-> FALSE]
    ELSE [log |-> <<>>, escapes |-> TRUE]

\* AfterIndex reporting the search failure at error severity.
AfterIndex_ErrorLevel(outcome, d) ==
    IF outcome = "Succeeded"
    THEN [log |-> <<LogEntry("log", "Saved to Elasticsearch", <<>>, d)>>,
          escapes |-> FALSE]
    ELSE [log |-> <<LogEntry("error",
                             "Elasticsearch not available, skipping ES save",
                             <<>>, d)>>,
          escapes |-> FALSE]

\* Lines 49-53: what follows the awaited elasticsearchService.index.
AfterIndex(outcome, d) ==
    IF outcome = "Succeeded"
    THEN [log |-> <<LogEntry("log", "Saved to Elasticsearch", <<>>, d)>>,
          escapes |-> FALSE]
    ELSE [log |-> <<LogEntry("warn",
                             "Elasticsearch not available, skipping ES save",
                             <<>>, d)>>,
          escapes |-> FALSE]

(* ------------------------- identity scope ------------------------------ *)
\* One store shared by every invocation instead of a fresh one per run.
ClsRun_Shared(d) == 1

\* clsService.run: a fresh store for the callback's asynchronous context.
ClsRun(d) == d

\* clsService.get('userId') as seen by code running for delivery d.
ClsGet(d) ==
    IF als[d] = {} THEN Undefined ELSE clsStore[CHOOSE k \in als[d] : TRUE]

\* The scope left only when the callback resolves, not when it rejects.
ScopeAfterRun_LeakOnFailure(d, ok) == IF ok THEN {} ELSE als[d]

\* The callback's promise settled (resolved or rejected): its context ends.
ScopeAfterRun(d, ok) == {}

(* ------------------------- relational writer --------------------------- *)
\* create() losing the duration.
Create_DropsField(p) == [userId |-> p.userId, url |-> p.url,
                         processType |-> p.processType,
                         responseTimeMs |-> 0]

\* logRepository.create(payload)
Create(p) == [userId |-> p.userId, url |-> p.url,
              processType |-> p.processType,
              responseTimeMs |-> p.responseTimeMs]

\* logRepository.save(newLog) accepted by the store: the inserted row.
InsertedRow(newLog, d) ==
    [id |-> Len(rows) + 1, timestamp |-> now,
     userId |-> newLog.userId, url |-> newLog.url,
     processType |-> newLog.processType,
     responseTimeMs |-> newLog.responseTimeMs,
     scopeUserId |-> ClsGet(d), delivery |-> d]

\* A save that skips a record equal to one already stored (deduplication).
RowsAfterSave_Dedup(d, ok) ==
    IF ok /\ \A i \in DOMAIN rows : rows[i].userId # payload[d].userId
    THEN Append(rows, InsertedRow(Create(payload[d]), d))
    ELSE rows

\* A save guarded by state kept between deliveries: once any delivery's
\* relational write has failed, later accepted writes are dropped.
RowsAfterSave_CircuitBreaker(d, ok) ==
    IF ok /\ \A e \in Deliveries : relOutcome[e] # "Failed"
    THEN Append(rows, InsertedRow(Create(payload[d]), d))
    ELSE rows

RowsAfterSave(d, ok) ==
    IF ok THEN Append(rows, InsertedRow(Create(payload[d]), d)) ELSE rows

(* ------------------------- search indexer ------------------------------ *)
\* A request built from the saved entity: it carries the row's id and
\* the row's timestamp when the relational write was accepted.
IndexRequest_SavedEntity(p, d) ==
    LET mine == {i \in DOMAIN rows : rows[i].delivery = d} IN
    IF mine = {}
    THEN [index |-> "activity-logs",
          body |-> [userId |-> p.userId, url |-> p.url,
                    processType |-> p.processType,
                    responseTimeMs |-> p.responseTimeMs,
                    timestamp |-> now],
          delivery |-> d]
    ELSE LET r == rows[CHOOSE i \in mine : TRUE] IN
         [index |-> "activity-logs",
          body |-> [id |-> r.id, userId |-> p.userId, url |-> p.url,
                    processType |-> p.processType,
                    responseTimeMs |-> p.responseTimeMs,
                    timestamp |-> r.timestamp],
          delivery |-> d]

\* Lines 41-47: the request passed to elasticsearchService.index.
IndexRequest(p, d) ==
    [index |-> "activity-logs",
     body |-> [userId |-> p.userId, url |-> p.url,
               processType |-> p.processType,
               responseTimeMs |-> p.responseTimeMs,
               timestamp |-> now],
     delivery |-> d]

NoRequest == [index |-> Undefined,
              body |-> [userId |-> Undefined, url |-> Undefined,
                        processType |-> Undefined, responseTimeMs |-> 0,
                        timestamp |-> 0],
              delivery |-> 0]

\* The index call made without the presence check.
SearchConfigured_Unchecked == TRUE

\* Line 40: the presence check.
SearchConfigured == elasticsearchService.defined

\* An index call keyed by userId: a later document replaces the earlier one.
DocsAfterIndex_Upsert(d, ok) ==
    LET doc == [body |-> indexReq[d].body, index |-> indexReq[d].index,
                delivery |-> d]
        same == {i \in DOMAIN docs : docs[i].body.userId = doc.body.userId}
    IN IF ~ok THEN docs
       ELSE IF same = {} THEN Append(docs, doc)
       ELSE [i \in DOMAIN docs |-> IF i \in same THEN doc ELSE docs[i]]

DocsAfterIndex(d, ok) ==
    IF ok THEN Append(docs, [body |-> indexReq[d].body,
                             index |-> indexReq[d].index,
                             delivery |-> d])
    ELSE docs

(* ------------------------- initial states ------------------------------ *)
InitHandler ==
    /\ pc = [d \in Deliveries |-> "idle"]
    /\ payload = [d \in Deliveries |-> NoPayload]
    /\ als = [d \in Deliveries |-> {}]
    /\ clsStore = [k \in Deliveries |-> Undefined]
    /\ rows = <<>>
    /\ docs = <<>>
    /\ indexReq = [d \in Deliveries |-> NoRequest]
    /\ logs = [d \in Deliveries |-> <<>>]
    /\ now = 0
    /\ relOutcome = [d \in Deliveries |-> "none"]
    /\ esOutcome = [d \in Deliveries |-> "none"]
    /\ returned = [d \in Deliveries |-> "pending"]
    /\ saveCalls = [d \in Deliveries |-> 0]
    /\ indexCalls = [d \in Deliveries |-> 0]

\* The listener constructed with any value for its elasticsearchService
\* parameter (present or absent); no configuration is consulted.
Init ==
    /\ env = Undefined
    /\ elasticsearchService \in Services
    /\ InitHandler

\* The listener constructed by the application's module wiring.
InitApp ==
    /\ env \in EnvValues
    /\ elasticsearchService = SearchModuleFactory(env)
    /\ InitHandler

(* ------------------------- actions ------------------------------------- *)
\* An entry that validates the payload and drops a malformed one before
\* any write.
HandleLogEvent_Validating(d, p) ==
    /\ pc[d] = "idle"
    /\ IF d = 1 THEN TRUE ELSE pc[d - 1] # "idle"
    /\ payload' = [payload EXCEPT ![d] = p]
    /\ logs' = [logs EXCEPT ![d] = Append(@, CaughtLog(p, d))]
    /\ IF Malformed(p)
       THEN /\ pc' = [pc EXCEPT ![d] = "Done"]
            /\ returned' = [returned EXCEPT ![d] = "normal"]
            /\ UNCHANGED <<als, clsStore, saveCalls>>
       ELSE /\ als' = [als EXCEPT ![d] = {ClsRun(d)}]
            /\ clsStore' = [clsStore EXCEPT ![ClsRun(d)] = p.userId]
            /\ saveCalls' = [saveCalls EXCEPT ![d] = @ + 1]
            /\ pc' = [pc EXCEPT ![d] = "RelationalPending"]
            /\ UNCHANGED returned
    /\ UNCHANGED <<env, elasticsearchService, rows, docs, indexReq, now,
                   relOutcome, esOutcome, indexCalls>>

\* An entry that issues both writes at once instead of one after the other.
HandleLogEvent_Parallel(d, p) ==
    /\ pc[d] = "idle"
    /\ IF d = 1 THEN TRUE ELSE pc[d - 1] # "idle"
    /\ payload' = [payload EXCEPT ![d] = p]
    /\ logs' = [logs EXCEPT ![d] = Append(@, CaughtLog(p, d))]
    /\ als' = [als EXCEPT ![d] = {ClsRun(d)}]
    /\ clsStore' = [clsStore EXCEPT ![ClsRun(d)] = p.userId]
    /\ saveCalls' = [saveCalls EXCEPT ![d] = @ + 1]
    /\ indexReq' = [indexReq EXCEPT ![d] = IndexRequest(p, d)]
    /\ indexCalls' = [indexCalls EXCEPT ![d] = @ + 1]
    /\ pc' = [pc EXCEPT ![d] = "RelationalPending"]
    /\ UNCHANGED <<env, elasticsearchService, rows, docs, now,
                   relOutcome, esOutcome, returned>>

\* Lines 23-31: entry, up to the await of repository.save.
HandleLogEvent(d, p) ==
    /\ pc[d] = "idle"
    /\ IF d = 1 THEN TRUE ELSE pc[d - 1] # "idle"
    /\ payload' = [payload EXCEPT ![d] = p]
    /\ logs' = [logs EXCEPT ![d] = Append(@, CaughtLog(p, d))]
    /\ als' = [als EXCEPT ![d] = {ClsRun(d)}]
    /\ clsStore' = [clsStore EXCEPT ![ClsRun(d)] = p.userId]
    /\ saveCalls' = [saveCalls EXCEPT ![d] = @ + 1]
    /\ pc' = [pc EXCEPT ![d] = "RelationalPending"]
    /\ UNCHANGED <<env, elasticsearchService, rows, docs, indexReq, now,
                   relOutcome, esOutcome, returned, indexCalls>>

\* clsService.run placed outside the try block: its failure escapes.
ScopeOpenFails_Uncaught(d, p) ==
    /\ pc[d] = "idle"
    /\ IF d = 1 THEN TRUE ELSE pc[d - 1] # "idle"
    /\ payload' = [payload EXCEPT ![d] = p]
    /\ logs' = [logs EXCEPT ![d] = Append(@, CaughtLog(p, d))]
    /\ relOutcome' = [relOutcome EXCEPT ![d] = "Failed"]
    /\ returned' = [returned EXCEPT ![d] = "raised"]
    /\ pc' = [pc EXCEPT ![d] = "Done"]
    /\ UNCHANGED <<env, elasticsearchService, als, clsStore, rows, docs,
                   indexReq, now, esOutcome, saveCalls, indexCalls>>

\* Lines 23-29 and 34: entry when clsService.run or clsService.set throws
\* before save is issued; the rejection is taken by the catch of line 34
\* when the handler resumes.  No store stays active and no row is written.
ScopeOpenFails(d, p) ==
    /\ pc[d] = "idle"
    /\ IF d = 1 THEN TRUE ELSE pc[d - 1] # "idle"
    /\ payload' = [payload EXCEPT ![d] = p]
    /\ logs' = [logs EXCEPT ![d] = Append(@, CaughtLog(p, d))]
    /\ relOutcome' = [relOutcome EXCEPT ![d] = "Failed"]
    /\ pc' = [pc EXCEPT ![d] = "ContextClosed"]
    /\ UNCHANGED <<env, elasticsearchService, als, clsStore, rows, docs,
                   indexReq, now, esOutcome, returned, saveCalls, indexCalls>>

\* Line 31-32: repository.save settles and the run callback ends.
RelationalWriteCompletes(d, ok) ==
    /\ pc[d] = "RelationalPending"
    /\ rows' = RowsAfterSave(d, ok)
    /\ relOutcome' = [relOutcome EXCEPT
                        ![d] = IF ok THEN "Succeeded" ELSE "Failed"]
    /\ als' = [als EXCEPT ![d] = ScopeAfterRun(d, ok)]
    /\ pc' = [pc EXCEPT ![d] = "ContextClosed"]
    /\ UNCHANGED <<env, elasticsearchService, payload, clsStore, docs,
                   indexReq, logs, now, esOutcome, returned, saveCalls,
                   indexCalls>>

\* AfterRelational with a retry: a failed save is issued once more.
AfterRelational_Retry(d) ==
    LET r == AfterRun(relOutcome[d], d) IN
    /\ pc[d] = "ContextClosed"
    /\ logs' = [logs EXCEPT ![d] = @ \o r.log]
    /\ IF relOutcome[d] = "Failed" /\ saveCalls[d] < 2
       THEN /\ als' = [als EXCEPT ![d] = {ClsRun(d)}]
            /\ saveCalls' = [saveCalls EXCEPT ![d] = @ + 1]
            /\ pc' = [pc EXCEPT ![d] = "RelationalPending"]
            /\ UNCHANGED <<indexReq, indexCalls, esOutcome, returned>>
       ELSE IF SearchConfigured
       THEN /\ indexReq' = [indexReq EXCEPT ![d] = IndexRequest(payload[d], d)]
            /\ indexCalls' = [indexCalls EXCEPT ![d] = @ + 1]
            /\ pc' = [pc EXCEPT ![d] = "SearchPending"]
            /\ UNCHANGED <<esOutcome, returned, als, saveCalls>>
       ELSE /\ esOutcome' = [esOutcome EXCEPT ![d] = "Skipped"]
            /\ pc' = [pc EXCEPT ![d] = "Done"]
            /\ returned' = [returned EXCEPT ![d] = "normal"]
            /\ UNCHANGED <<indexReq, indexCalls, als, saveCalls>>
    /\ UNCHANGED <<env, elasticsearchService, payload, clsStore, rows,
                   docs, now, relOutcome>>

\* Lines 33-47: the handler resumes after clsService.run, logs the
\* relational outcome and issues the index call, or skips it and returns.
AfterRelational(d) ==
    LET r == AfterRun(relOutcome[d], d) IN
    /\ pc[d] = "ContextClosed"
    /\ logs' = [logs EXCEPT ![d] = @ \o r.log]
    /\ IF r.escapes
       THEN /\ pc' = [pc EXCEPT ![d] = "Done"]
            /\ returned' = [returned EXCEPT ![d] = "raised"]
            /\ UNCHANGED <<indexReq, indexCalls, esOutcome>>
       ELSE IF SearchConfigured
       THEN /\ indexReq' = [indexReq EXCEPT ![d] = IndexRequest(payload[d], d)]
            /\ indexCalls' = [indexCalls EXCEPT ![d] = @ + 1]
            /\ pc' = [pc EXCEPT ![d] = "SearchPending"]
            /\ UNCHANGED <<esOutcome, returned>>
       ELSE /\ esOutcome' = [esOutcome EXCEPT ![d] = "Skipped"]
            /\ pc' = [pc EXCEPT ![d] = "Done"]
            /\ returned' = [returned EXCEPT ![d] = "normal"]
            /\ UNCHANGED <<indexReq, indexCalls>>
    /\ UNCHANGED <<env, elasticsearchService, payload, als, clsStore, rows,
                   docs, now, relOutcome, saveCalls>>

\* Lines 41-54: the index call settles, the handler logs and returns.
SearchWriteCompletes(d, ok) ==
    LET outcome == IF ok THEN "Succeeded" ELSE "Failed"
        r == AfterIndex(outcome, d) IN
    /\ pc[d] = "SearchPending"
    /\ docs' = DocsAfterIndex(d, ok)
    /\ esOutcome' = [esOutcome EXCEPT ![d] = outcome]
    /\ logs' = [logs EXCEPT ![d] = @ \o r.log]
    /\ returned' = [returned EXCEPT
                      ![d] = IF r.escapes THEN "raised" ELSE "normal"]
    /\ pc' = [pc EXCEPT ![d] = "Done"]
    /\ UNCHANGED <<env, elasticsearchService, payload, als, clsStore, rows,
                   indexReq, now, relOutcome, saveCalls, indexCalls>>

\* Time passes.
Tick ==
    /\ now < MaxClock
    /\ now' = now + 1
    /\ UNCHANGED <<env, elasticsearchService, pc, payload, als, clsStore,
                   rows, docs, indexReq, logs, relOutcome, esOutcome,
                   returned, saveCalls, indexCalls>>

Deliver == \E d \in Deliveries, p \in Payloads : HandleLogEvent(d, p)
SaveSettles == \E d \in Deliveries, ok \in BOOLEAN : RelationalWriteCompletes(d, ok)
Resume == \E d \in Deliveries : AfterRelational(d)
IndexSettles == \E d \in Deliveries, ok \in BOOLEAN : SearchWriteCompletes(d, ok)

Next == Deliver \/ SaveSettles \/ Resume \/ IndexSettles \/ Tick

Spec == Init /\ [][Next]_vars

SpecApp == InitApp /\ [][Next]_vars

\* Deliveries of any payload, valid or malformed.  The store may reject a
\* malformed record (a constraint error) or accept it: both outcomes of
\* SaveSettles and IndexSettles stay possible.
DeliverAny ==
    \E d \in Deliveries, p \in Payloads \cup MalformedPayloads :
        HandleLogEvent(d, p)

NextMalformed == DeliverAny \/ SaveSettles \/ Resume \/ IndexSettles \/ Tick

SpecMalformed == Init /\ [][NextMalformed]_vars

\* Deliveries during which opening the identity scope may fail.
DeliverScopeFault == \E d \in Deliveries, p \in Payloads : ScopeOpenFails(d, p)

NextScopeFault ==
    Deliver \/ DeliverScopeFault \/ SaveSettles \/ Resume \/ IndexSettles \/ Tick

SpecScopeFault == Init /\ [][NextScopeFault]_vars

\* Every issued store call eventually completes or fails, and a resumed
\* handler eventually runs.
Fairness ==
    \A d \in Deliveries :
        /\ WF_vars(\E ok \in BOOLEAN : RelationalWriteCompletes(d, ok))
        /\ WF_vars(AfterRelational(d))
        /\ WF_vars(\E ok \in BOOLEAN : SearchWriteCompletes(d, ok))

FairSpec == Init /\ [][Next]_vars /\ Fairness

TypeOK ==
    /\ env \in EnvValues
    /\ elasticsearchService.defined \in BOOLEAN
    /\ pc \in [Deliveries -> {"idle", "RelationalPending", "ContextClosed",
                              "SearchPending", "Done"}]
    /\ now \in 0..MaxClock
    /\ returned \in [Deliveries -> {"pending", "normal", "raised"}]

(* ------------------------- observations -------------------------------- *)
RowsOf(d) == {i \in DOMAIN rows : rows[i].delivery = d}
DocsOf(d) == {i \in DOMAIN docs : docs[i].delivery = d}
LevelCount(d, lvl) == Cardinality({i \in DOMAIN logs[d] : logs[d][i].level = lvl})
MsgCount(d, m) == Cardinality({i \in DOMAIN logs[d] : logs[d][i].msg = m})
\* The lines of delivery d that report the relational outcome.
RelationalLogs(d) ==
    SelectSeq(logs[d], LAMBDA e : e.msg \in {"Saved to MariaDB",
                              "Failed to save activity log to MariaDB"})
PastRelational(d) == pc[d] \in {"SearchPending", "Done"}

(* ------------------------- claims -------------------------------------- *)

\* C1: whatever the health of the two sinks (relational write succeeds or
\* fails; search write succeeds, fails, or the service is absent), no error
\* escapes handleLogEvent: every finished invocation returned normally.
C1_NoErrorEscapes ==
    \A d \in Deliveries :
        /\ returned[d] # "raised"
        /\ pc[d] = "Done" => returned[d] = "normal"

\* C1 witness: an invocation finished after both of its writes failed.
C1_Witness ==
    \E d \in Deliveries :
        /\ pc[d] = "Done"
        /\ relOutcome[d] = "Failed"
        /\ esOutcome[d] = "Failed"

\* C2: if the relational write of a delivery fails, no row exists for that
\* delivery, exactly one error-level relational-failure line is logged once
\* the handler has resumed, the search write is still attempted when a
\* search service is present, and a successful index call yields one
\* document.
C2_RelationalFailureContained ==
    \A d \in Deliveries :
        relOutcome[d] = "Failed" =>
            /\ RowsOf(d) = {}
            /\ PastRelational(d) =>
                  /\ LevelCount(d, "error") = 1
                  /\ MsgCount(d, "Failed to save activity log to MariaDB") = 1
                  /\ MsgCount(d, "Saved to MariaDB") = 0
                  /\ elasticsearchService.defined => indexCalls[d] = 1
            /\ (pc[d] = "Done" /\ elasticsearchService.defined) => esOutcome[d] # "Skipped"
            /\ esOutcome[d] = "Succeeded" => Cardinality(DocsOf(d)) = 1

\* C2 witness: relational write failed, the document was still created.
C2_Witness ==
    \E d \in Deliveries :
        /\ pc[d] = "Done"
        /\ relOutcome[d] = "Failed"
        /\ esOutcome[d] = "Succeeded"
        /\ Cardinality(DocsOf(d)) = 1

\* C3: when the index call of a delivery fails, that step leaves the
\* relational outcome of the delivery as it was (rows, recorded outcome and
\* relational log lines unchanged), and the delivery ends with exactly one
\* warning-level line.
C3_SearchFailureStep ==
    \A d \in Deliveries :
        (pc[d] = "SearchPending" /\ esOutcome'[d] = "Failed") =>
            /\ rows' = rows
            /\ relOutcome'[d] = relOutcome[d]
            /\ RelationalLogs(d)' = RelationalLogs(d)
            /\ LevelCount(d, "error")' = LevelCount(d, "error")
            /\ LevelCount(d, "warn")' = 1

C3_SearchFailureIsolated ==
    /\ [][C3_SearchFailureStep]_vars
    /\ [](\A d \in Deliveries :
             (pc[d] = "Done" /\ esOutcome[d] = "Failed") =>
                 /\ LevelCount(d, "warn") = 1
                 /\ relOutcome[d] = "Succeeded" <=> Cardinality(RowsOf(d)) = 1
                 /\ relOutcome[d] = "Failed" <=> RowsOf(d) = {})

\* C3 witness: a failed index call after a successful relational write.
C3_Witness ==
    \E d \in Deliveries :
        /\ pc[d] = "Done"
        /\ esOutcome[d] = "Failed"
        /\ relOutcome[d] = "Succeeded"
        /\ Cardinality(RowsOf(d)) = 1

\* C4: the identity scope of a delivery is open exactly while its
\* relational write is pending: it is closed once the write has settled,
\* successfully or not, hence before the index call is issued, and every
\* row was written with the scope open.
C4_ScopeExactlyAroundRelationalWrite ==
    /\ \A d \in Deliveries : (als[d] # {}) <=> (pc[d] = "RelationalPending")
    /\ \A i \in DOMAIN rows : rows[i].scopeUserId # Undefined

\* C4 witness: the relational write failed and the index call is pending
\* with no scope open.
C4_Witness ==
    \E d \in Deliveries :
        /\ relOutcome[d] = "Failed"
        /\ pc[d] = "SearchPending"
        /\ als[d] = {}

\* C5: under any interleaving of concurrently handled deliveries, the
\* userId visible in the scope of a pending relational write, and recorded
\* with every written row, is the userId of that delivery's own payload, and
\* a delivery whose two writes succeeded has exactly one row and one
\* document, both carrying its own payload.
C5_ScopesDoNotLeak ==
    /\ \A d \in Deliveries :
          pc[d] = "RelationalPending" => ClsGet(d) = payload[d].userId
    /\ \A i \in DOMAIN rows :
          /\ rows[i].scopeUserId = payload[rows[i].delivery].userId
          /\ rows[i].userId = payload[rows[i].delivery].userId
    /\ \A i \in DOMAIN docs :
          docs[i].body.userId = payload[docs[i].delivery].userId
    /\ \A d \in Deliveries :
          (relOutcome[d] = "Succeeded" /\ esOutcome[d] = "Succeeded") =>
              /\ Cardinality(RowsOf(d)) = 1
              /\ Cardinality(DocsOf(d)) = 1

\* C5 witness: a row was written for one user while the relational write
\* of a later delivery for another user was pending in its own scope.
C5_Witness ==
    \E d1, d2 \in Deliveries :
        /\ d1 < d2
        /\ payload[d1].userId # payload[d2].userId
        /\ pc[d2] = "RelationalPending"
        /\ pc[d1] = "ContextClosed"
        /\ relOutcome[d1] = "Succeeded"

\* C6: once the relational store has accepted the write of a delivery
\* (and so also after its handler has returned), exactly one row exists for
\* that delivery; it carries the payload's userId, url, processType and
\* responseTimeMs unchanged, an id generated by the store (unique among the
\* rows) and a timestamp generated by the store.
C6_AcceptedWriteCreatesOneFaithfulRow ==
    /\ \A d \in Deliveries :
          relOutcome[d] = "Succeeded" =>
              /\ Cardinality(RowsOf(d)) = 1
              /\ \A i \in RowsOf(d) :
                    /\ rows[i].userId = payload[d].userId
                    /\ rows[i].url = payload[d].url
                    /\ rows[i].processType = payload[d].processType
                    /\ rows[i].responseTimeMs = payload[d].responseTimeMs
                    /\ rows[i].id \in 1..Len(rows)
                    /\ rows[i].timestamp \in 0..now
    /\ \A i, j \in DOMAIN rows : rows[i].id = rows[j].id => i = j

\* C6 witness: a handler returned after its relational write was accepted
\* and its row is not the first of the table.
C6_Witness ==
    \E d \in Deliveries :
        /\ pc[d] = "Done"
        /\ relOutcome[d] = "Succeeded"
        /\ \E i \in RowsOf(d) : rows[i].id > 1 /\ rows[i].responseTimeMs = 7

\* C7: with no search service, handling a delivery makes no index call,
\* creates no document and logs no warning and no error about the search
\* write (the only error line possible is the relational one), while the
\* row is created exactly as the relational outcome says.
C7_AbsentSearchIsSkippedSilently ==
    ~elasticsearchService.defined =>
        /\ docs = <<>>
        /\ \A d \in Deliveries :
              /\ indexCalls[d] = 0
              /\ LevelCount(d, "warn") = 0
              /\ MsgCount(d, "Saved to Elasticsearch") = 0
              /\ LevelCount(d, "error") =
                    MsgCount(d, "Failed to save activity log to MariaDB")
              /\ relOutcome[d] = "Succeeded" => Cardinality(RowsOf(d)) = 1
              /\ pc[d] = "Done" =>
                    /\ esOutcome[d] = "Skipped"
                    /\ returned[d] = "normal"
                    /\ Len(logs[d]) = 2

\* C7 witness: a delivery handled to the end without a search service, its
\* row created.
C7_Witness ==
    \E d \in Deliveries :
        /\ ~elasticsearchService.defined
        /\ pc[d] = "Done"
        /\ Cardinality(RowsOf(d)) = 1

\* C8 as stated: with no endpoint URL in the configuration, no index call
\* is made for any record.
C8_Original ==
    ~Truthy(env) => \A d \in Deliveries : indexCalls[d] = 0

\* C8 amended: with no endpoint URL in the configuration (unset or empty)
\* the search service is still provided, built for the fallback node
\* http://localhost:9200, and the handler issues exactly one index call for
\* every record once it is past the relational write.
C8_AbsentUrlFallsBackToDefaultNode ==
    ~Truthy(env) =>
        /\ elasticsearchService.defined
        /\ elasticsearchService.node = DefaultNode
        /\ \A d \in Deliveries :
              PastRelational(d) =>
                  /\ indexCalls[d] = 1
                  /\ esOutcome[d] # "Skipped"

\* C8 witness: no endpoint URL configured and a document indexed.
C8_Witness ==
    \E d \in Deliveries :
        /\ env = Undefined
        /\ pc[d] = "Done"
        /\ esOutcome[d] = "Succeeded"
        /\ Cardinality(DocsOf(d)) = 1

\* C9: a delivery whose two writes both succeeded has exactly one row and
\* one document, and its log lines are, in this order, the receipt line,
\* 'Saved to MariaDB' and 'Saved to Elasticsearch', all at level log.
C9_HealthyRunLogsInOrder ==
    \A d \in Deliveries :
        (pc[d] = "Done" /\ relOutcome[d] = "Succeeded"
                        /\ esOutcome[d] = "Succeeded") =>
            /\ Cardinality(RowsOf(d)) = 1
            /\ Cardinality(DocsOf(d)) = 1
            /\ logs[d] =
                 << [level |-> "log", msg |-> "Caught log event!",
                     args |-> <<payload[d].userId, payload[d].url>>],
                    [level |-> "log", msg |-> "Saved to MariaDB",
                     args |-> <<>>],
                    [level |-> "log", msg |-> "Saved to Elasticsearch",
                     args |-> <<>>] >>

\* C9 witness: the README's record handled with both stores healthy.
C9_Witness ==
    \E d \in Deliveries :
        /\ payload[d].userId = "user-123"
        /\ pc[d] = "Done"
        /\ relOutcome[d] = "Succeeded"
        /\ esOutcome[d] = "Succeeded"

\* The transitions of the per-record state machine.  Received and
\* ContextOpen are passed within the entry step, which ends with the save
\* pending; the settled save closes the context; the search write is then
\* pending, or skipped when no service is present.
C10_Transitions ==
    {<<"idle", "RelationalPending">>,
     <<"RelationalPending", "ContextClosed">>,
     <<"ContextClosed", "SearchPending">>,
     <<"ContextClosed", "Done">>,
     <<"SearchPending", "Done">>}

C10_Step ==
    \A d \in Deliveries :
        pc'[d] # pc[d] =>
            /\ <<pc[d], pc'[d]>> \in C10_Transitions
            /\ pc'[d] = "ContextClosed" => relOutcome'[d] \in {"Succeeded", "Failed"}
            /\ (pc[d] = "ContextClosed" /\ pc'[d] = "Done") => esOutcome'[d] = "Skipped"
            /\ (pc[d] = "SearchPending" /\ pc'[d] = "Done") =>
                   esOutcome'[d] \in {"Succeeded", "Failed"}

\* C10: every delivery moves only along the state machine, each write is
\* attempted at most once per delivery (no retry), and, every issued store
\* call eventually settling, every delivery eventually reaches Done: from
\* some point on each delivery is either not yet made or Done (Done is
\* never left, by the transitions).
C10_SinglePassToDone ==
    /\ [][C10_Step]_vars
    /\ [](\A d \in Deliveries : saveCalls[d] <= 1 /\ indexCalls[d] <= 1)
    /\ <>[](\A d \in Deliveries : pc[d] \in {"idle", "Done"})

\* C10 witness: a delivery reached Done after a failed relational write
\* and a failed search write, each attempted once.
C10_Witness ==
    \E d \in Deliveries :
        /\ pc[d] = "Done"
        /\ relOutcome[d] = "Failed"
        /\ esOutcome[d] = "Failed"
        /\ saveCalls[d] = 1
        /\ indexCalls[d] = 1

\* Deliveries handed to the handler so far.
Delivered == {d \in Deliveries : pc[d] # "idle"}
IsPrefix(s, t) == Len(s) <= Len(t) /\ SubSeq(t, 1, Len(s)) = s

C11_IndexIssueStep ==
    \A d \in Deliveries :
        indexCalls'[d] > indexCalls[d] =>
            /\ saveCalls[d] = 1
            /\ relOutcome[d] \in {"Succeeded", "Failed"}
            /\ pc[d] = "ContextClosed"

\* C11: within one delivery the two writes are sequential: the index call
\* is issued only in a step that finds the delivery's relational write
\* already settled, so whenever an index call has been issued, is pending
\* or has settled, the relational outcome of that delivery is known,
\* whatever the other deliveries are doing.
C11_WritesAreSequential ==
    /\ [][C11_IndexIssueStep]_vars
    /\ [](\A d \in Deliveries :
             (indexCalls[d] > 0 \/ esOutcome[d] \in {"Succeeded", "Failed"}
                                \/ DocsOf(d) # {}) =>
                 /\ relOutcome[d] \in {"Succeeded", "Failed"}
                 /\ pc[d] \in {"SearchPending", "Done"})

\* C11 witness: the index call of one delivery is pending while the
\* relational write of another delivery is still pending.
C11_Witness ==
    \E d1, d2 \in Deliveries :
        /\ pc[d1] = "SearchPending"
        /\ indexCalls[d1] = 1
        /\ pc[d2] = "RelationalPending"

\* C12: no deduplication and at most one copy per sink per delivery: the
\* table holds at most as many rows, and the index at most as many
\* documents, as deliveries were made, each delivery owning at most one of
\* each; when every delivery made has finished with both writes accepted
\* there are exactly as many rows and documents as deliveries, duplicates
\* included; no delivery ends with an error raised.
C12_OneCopyPerDelivery ==
    /\ Len(rows) <= Cardinality(Delivered)
    /\ Len(docs) <= Cardinality(Delivered)
    /\ \A d \in Deliveries :
          /\ Cardinality(RowsOf(d)) <= 1
          /\ Cardinality(DocsOf(d)) <= 1
          /\ returned[d] # "raised"
    /\ (\A d \in Delivered : /\ pc[d] = "Done"
                             /\ relOutcome[d] = "Succeeded"
                             /\ esOutcome[d] = "Succeeded") =>
          /\ Len(rows) = Cardinality(Delivered)
          /\ Len(docs) = Cardinality(Delivered)

\* C12 witness: the same payload delivered twice, both handled to the end
\* with healthy stores: two rows and two documents.
C12_Witness ==
    \E d1, d2 \in Deliveries :
        /\ d1 # d2
        /\ payload[d1] = payload[d2]
        /\ pc[d1] = "Done" /\ pc[d2] = "Done"
        /\ RowsOf(d1) # {} /\ RowsOf(d2) # {}
        /\ DocsOf(d1) # {} /\ DocsOf(d2) # {}

C13_AppendOnlyStep ==
    /\ IsPrefix(rows, rows')
    /\ IsPrefix(docs, docs')
    /\ \A d \in Deliveries : pc[d] # "idle" => payload'[d] = payload[d]

\* C13: both stores are append-only for the handler: every step leaves the
\* rows and documents already persisted as they were (it may only append),
\* and never changes the payload of a delivery already made.
C13_AppendOnly == [][C13_AppendOnlyStep]_vars

\* C13 witness: a second row and a second document for the same user were
\* persisted after the first ones.
C13_Witness ==
    /\ Len(rows) >= 2
    /\ Len(docs) >= 2
    /\ rows[1].userId = rows[2].userId
    /\ docs[1].body.userId = docs[2].body.userId

DocumentFields == {"userId", "url", "processType", "responseTimeMs", "timestamp"}

C14_IndexIssueStep ==
    \A d \in Deliveries :
        indexCalls'[d] > indexCalls[d] =>
            /\ indexReq'[d].index = "activity-logs"
            /\ DOMAIN indexReq'[d].body = DocumentFields
            /\ indexReq'[d].body.timestamp = now

\* C14: the document of a delivery has exactly the payload's four fields,
\* unchanged, plus a timestamp, and no id of the relational row; the
\* timestamp is the clock read when the index call is issued, not the
\* timestamp of the delivery's row.
C14_DocumentIsPayloadPlusOwnTimestamp ==
    /\ [][C14_IndexIssueStep]_vars
    /\ [](\A i \in DOMAIN docs :
             /\ DOMAIN docs[i].body = DocumentFields
             /\ docs[i].index = "activity-logs"
             /\ docs[i].body.userId = payload[docs[i].delivery].userId
             /\ docs[i].body.url = payload[docs[i].delivery].url
             /\ docs[i].body.processType = payload[docs[i].delivery].processType
             /\ docs[i].body.responseTimeMs =
                    payload[docs[i].delivery].responseTimeMs
             /\ docs[i].body.timestamp \in 0..now)

\* C14 witness: a delivery whose document carries a later timestamp than
\* its row.
C14_Witness ==
    \E d \in Deliveries :
        \E i \in RowsOf(d), j \in DocsOf(d) :
            docs[j].body.timestamp > rows[i].timestamp

\* C15: a delivery whose payload lacks a required field is not rejected
\* before the writes: the save is issued with it, and so is the index call
\* (carrying the payload as it came) when a search service is present; a
\* rejection by either store is handled as any write failure (no row and
\* one error line, or no document and one warning line), and the handler
\* returns normally.
C15_MalformedPayloadFallsThrough ==
    \A d \in Delivered :
        Malformed(payload[d]) =>
            /\ saveCalls[d] = 1
            /\ returned[d] # "raised"
            /\ pc[d] = "Done" => returned[d] = "normal"
            /\ (PastRelational(d) /\ elasticsearchService.defined) =>
                  /\ indexCalls[d] = 1
                  /\ indexReq[d].body.userId = payload[d].userId
                  /\ indexReq[d].body.url = payload[d].url
            /\ relOutcome[d] = "Failed" =>
                  /\ RowsOf(d) = {}
                  /\ PastRelational(d) =>
                        /\ LevelCount(d, "error") = 1
                        /\ MsgCount(d, "Saved to MariaDB") = 0
            /\ esOutcome[d] = "Failed" =>
                  /\ DocsOf(d) = {}
                  /\ LevelCount(d, "warn") = 1

\* C15 witness: a payload without userId, rejected by both stores, handled
\* to the end.
C15_Witness ==
    \E d \in Deliveries :
        /\ payload[d].userId = Undefined
        /\ pc[d] = "Done"
        /\ relOutcome[d] = "Failed"
        /\ esOutcome[d] = "Failed"
        /\ returned[d] = "normal"

C16_SavedLogStep ==
    \A d \in Deliveries :
        MsgCount(d, "Saved to MariaDB")' > MsgCount(d, "Saved to MariaDB") =>
            /\ als[d] = {}
            /\ als'[d] = {}
            /\ Cardinality(RowsOf(d)) = 1

\* C16: every delivery logs exactly one relational outcome line once its
\* handler has resumed after the relational write (none before): either
\* 'Saved to MariaDB' or the error-level failure line, never both;
\* 'Saved to MariaDB' is logged only for a delivery whose row exists, and
\* only in a step taken with the identity scope already closed.
C16_OneRelationalOutcomeLog ==
    /\ [][C16_SavedLogStep]_vars
    /\ [](\A d \in Deliveries :
             /\ PastRelational(d) =>
                   MsgCount(d, "Saved to MariaDB")
                     + MsgCount(d, "Failed to save activity log to MariaDB") = 1
             /\ ~PastRelational(d) => Len(RelationalLogs(d)) = 0
             /\ MsgCount(d, "Saved to MariaDB") = 1 =>
                   /\ Cardinality(RowsOf(d)) = 1
                   /\ LevelCount(d, "error") = 0
             /\ MsgCount(d, "Failed to save activity log to MariaDB") = 1 =>
                   /\ RowsOf(d) = {}
                   /\ LevelCount(d, "error") = 1)

\* C16 witness: one delivery logged 'Saved to MariaDB', another the failure
\* line.
C16_Witness ==
    \E d1, d2 \in Deliveries :
        /\ PastRelational(d1) /\ PastRelational(d2)
        /\ MsgCount(d1, "Saved to MariaDB") = 1
        /\ MsgCount(d2, "Failed to save activity log to MariaDB") = 1

\* C17: a delivery for which opening the identity scope failed before the
\* save was issued is handled as a relational failure: no row, no scope
\* left open, one error-level failure line once the handler has resumed,
\* the index call still issued once when a search service is present, and
\* no error raised.
C17_ScopeFailureIsRelationalFailure ==
    \A d \in Delivered :
        saveCalls[d] = 0 =>
            /\ relOutcome[d] = "Failed"
            /\ RowsOf(d) = {}
            /\ als[d] = {}
            /\ returned[d] # "raised"
            /\ PastRelational(d) =>
                  /\ LevelCount(d, "error") = 1
                  /\ MsgCount(d, "Failed to save activity log to MariaDB") = 1
                  /\ elasticsearchService.defined => indexCalls[d] = 1
            /\ pc[d] = "Done" =>
                  /\ returned[d] = "normal"
                  /\ elasticsearchService.defined =>
                        esOutcome[d] \in {"Succeeded", "Failed"}

\* C17 witness: the scope could not be opened, and the document was still
\* indexed.
C17_Witness ==
    \E d \in Deliveries :
        /\ pc[d] = "Done"
        /\ saveCalls[d] = 0
        /\ esOutcome[d] = "Succeeded"
        /\ Cardinality(DocsOf(d)) = 1

\* The persisted copies of one delivery.
RowRecordsOf(d) == {rows[i] : i \in RowsOf(d)}
DocRecordsOf(d) == {docs[i] : i \in DocsOf(d)}

\* The lines a finished delivery must have logged, given only its payload
\* and the outcomes of its own two write attempts.
C18_ExpectedLogs(d) ==
    << [level |-> "log", msg |-> "Caught log event!",
        args |-> <<payload[d].userId, payload[d].url>>] >>
    \o (IF relOutcome[d] = "Succeeded"
        THEN << [level |-> "log", msg |-> "Saved to MariaDB", args |-> <<>>] >>
        ELSE << [level |-> "error",
                 msg |-> "Failed to save activity log to MariaDB",
                 args |-> <<>>] >>)
    \o (IF esOutcome[d] = "Succeeded"
        THEN << [level |-> "log", msg |-> "Saved to Elasticsearch",
                 args |-> <<>>] >>
        ELSE IF esOutcome[d] = "Failed"
        THEN << [level |-> "warn",
                 msg |-> "Elasticsearch not available, skipping ES save",
                 args |-> <<>>] >>
        ELSE << >>)

C18_OtherDeliveryStep ==
    \A d, e \in Deliveries :
        (d # e /\ pc'[e] # pc[e]) =>
            /\ pc'[d] = pc[d]
            /\ logs'[d] = logs[d]
            /\ relOutcome'[d] = relOutcome[d]
            /\ esOutcome'[d] = esOutcome[d]
            /\ returned'[d] = returned[d]
            /\ indexReq'[d] = indexReq[d]
            /\ ClsGet(d)' = ClsGet(d)
            /\ RowRecordsOf(d)' = RowRecordsOf(d)
            /\ DocRecordsOf(d)' = DocRecordsOf(d)

\* C18: the handler keeps no state between deliveries: a step of one
\* delivery changes nothing that belongs to another (position, log lines,
\* outcomes, scope, row, document), and what a finished delivery produced
\* is determined by its payload and the outcomes of its own two write
\* attempts: a row with its fields exactly when its save was accepted, a
\* document exactly when its index call was accepted, and the matching log
\* lines, whatever happened to the other deliveries.
C18_DeliveriesAreIndependent ==
    /\ [][C18_OtherDeliveryStep]_vars
    /\ [](\A d \in Deliveries :
             pc[d] = "Done" =>
                 /\ logs[d] = C18_ExpectedLogs(d)
                 /\ Cardinality(RowsOf(d)) =
                        (IF relOutcome[d] = "Succeeded" THEN 1 ELSE 0)
                 /\ Cardinality(DocsOf(d)) =
                        (IF esOutcome[d] = "Succeeded" THEN 1 ELSE 0)
                 /\ \A i \in RowsOf(d) : rows[i].userId = payload[d].userId
                                         /\ rows[i].url = payload[d].url
                 /\ \A i \in DocsOf(d) : docs[i].body.userId = payload[d].userId
                                         /\ docs[i].body.url = payload[d].url
                 /\ esOutcome[d] = "Skipped" <=> ~elasticsearchService.defined)

\* C18 witness: one delivery finished with both of its writes failed and
\* another, handled after it had started, finished with both accepted.
C18_Witness ==
    \E d1, d2 \in Deliveries :
        /\ d1 < d2
        /\ pc[d1] = "Done" /\ pc[d2] = "Done"
        /\ relOutcome[d1] = "Failed" /\ esOutcome[d1] = "Failed"
        /\ relOutcome[d2] = "Succeeded" /\ esOutcome[d2] = "Succeeded"
        /\ Cardinality(RowsOf(d2)) = 1
        /\ Cardinality(DocsOf(d2)) = 1
====
